---- MODULE Spec2Model ----
(***************************************************************************)
(* Model of openmetadata/process.py: the format registry `mapping`, the    *)
(* dispatchers preprocess/postprocess and the four handlers DotTxt,        *)
(* DotJson, DotIni and DotGdoc.  The module is Python 2 code (it imports   *)
(* ConfigParser and uses the print statement), so str(), json.dumps(),     *)
(* json.loads() and ConfigParser are modelled with their Python 2.7        *)
(* behaviour.  Text is a sequence of one-character strings.                *)
(***************************************************************************)
EXTENDS Integers, Sequences, FiniteSets, TLC

VARIABLES mapping, log, pc, op, raw, requested, format, result, invoked, ext, first

vars == <<mapping, log, pc, op, raw, requested, format, result, invoked, ext, first>>

\* ------------------------------------------------------------------ bounds
\* the longest str/unicode among the values
MaxStrLen == 2
\* how deep the containers among the values nest
MaxDepth == 2
\* how many execution contexts call at the same time
NumCtx == 2

\* ------------------------------------------------------- Python 2 values
\* Every value is a record of the same shape: t is the type name, n the
\* number of an int/bool (and, for a list, 1 when the list's only item is
\* the list itself), s the characters of a str/unicode, k the items of a
\* list/tuple or the alternating keys and values of a dict.
Mk(t, n, s, k) == [t |-> t, n |-> n, s |-> s, k |-> k]

PyNone == Mk("NoneType", 0, <<>>, <<>>)
PyBool(b) == Mk("bool", IF b THEN 1 ELSE 0, <<>>, <<>>)
PyInt(n) == Mk("int", n, <<>>, <<>>)
PyStr(s) == Mk("str", 0, s, <<>>)
PyUnicode(s) == Mk("unicode", 0, s, <<>>)
PyList(k) == Mk("list", 0, <<>>, k)
PyTuple(k) == Mk("tuple", 0, <<>>, k)
PyDict(k) == Mk("dict", 0, <<>>, k)
\* object(): a native object json cannot encode
PyObject == Mk("object", 0, <<>>, <<>>)
\* l = []; l.append(l): a value containing a reference cycle
PyCyclic == Mk("list", 1, <<>>, <<>>)

\* In a str the element HiChar is the byte 0xFF (not valid UTF-8); in a
\* unicode it is the code point U+00FF (not ASCII).
HiChar == "\\xff"
Quote == "\""
Backslash == "\\"
Newline == "\n"

IsAscii(s) == \A i \in 1..Len(s) : s[i] # HiChar

\* the one element of a one-element set; {e(x) : x \in {a}} evaluates a
\* once before e uses it
Only(S) == CHOOSE x \in S : TRUE

DigitChar(d) == <<"0", "1", "2", "3", "4", "5", "6", "7", "8", "9">>[d + 1]

RECURSIVE NatDigits(_)
NatDigits(n) == IF n < 10 THEN <<DigitChar(n)>>
                ELSE NatDigits(n \div 10) \o <<DigitChar(n % 10)>>

IntText(n) == IF n < 0 THEN <<"-">> \o NatDigits(0 - n) ELSE NatDigits(n)

\* ---------------------------------------------------------- repr(), str()
\* No value holds a single quote, so repr() always quotes with '.
ReprChar(ch) ==
    CASE ch = HiChar -> <<Backslash, "x", "f", "f">>
      [] ch = Backslash -> <<Backslash, Backslash>>
      [] ch = Newline -> <<Backslash, "n">>
      [] ch = "\r" -> <<Backslash, "r">>
      [] ch = "\t" -> <<Backslash, "t">>
      [] OTHER -> <<ch>>

\* the characters lo..hi of s, each as repr() writes it
RECURSIVE ReprRange(_, _, _)
ReprRange(s, lo, hi) ==
    IF lo > hi THEN <<>>
    ELSE IF lo = hi THEN ReprChar(s[lo])
    ELSE Only({ReprRange(s, lo, mid) \o ReprRange(s, mid + 1, hi) : mid \in {(lo + hi) \div 2}})

ReprChars(s) == ReprRange(s, 1, Len(s))

RECURSIVE Repr(_), ReprItems(_), ReprPairs(_)
Repr(v) ==
    CASE v.t = "NoneType" -> <<"N", "o", "n", "e">>
      [] v.t = "bool" -> IF v.n = 1 THEN <<"T", "r", "u", "e">>
                         ELSE <<"F", "a", "l", "s", "e">>
      [] v.t = "int" -> IntText(v.n)
      [] v.t = "str" -> <<"'">> \o ReprChars(v.s) \o <<"'">>
      [] v.t = "unicode" -> <<"u", "'">> \o ReprChars(v.s) \o <<"'">>
      [] v.t = "list" -> IF v.n = 1 THEN <<"[", "[", ".", ".", ".", "]", "]">>
                         ELSE <<"[">> \o ReprItems(v.k) \o <<"]">>
      [] v.t = "tuple" -> <<"(">> \o ReprItems(v.k)
                          \o (IF Len(v.k) = 1 THEN <<",">> ELSE <<>>) \o <<")">>
      [] v.t = "dict" -> <<"{">> \o ReprPairs(v.k) \o <<"}">>
      \* <object object at 0x...>: the address is one opaque element
      [] OTHER -> <<"<", "o", "b", "j", "e", "c", "t", " ", "a", "t", " ", "0x?", ">">>

ReprItems(k) ==
    IF k = <<>> THEN <<>>
    ELSE Repr(Head(k)) \o (IF Len(k) > 1 THEN <<",", " ">> ELSE <<>>)
         \o ReprItems(Tail(k))

ReprPairs(k) ==
    IF k = <<>> THEN <<>>
    ELSE Repr(k[1]) \o <<":", " ">> \o Repr(k[2])
         \o (IF Len(k) > 2 THEN <<",", " ">> ELSE <<>>)
         \o ReprPairs(Tail(Tail(k)))

\* ------------------------------------------------------------- outcomes
\* What a call ends in: a returned value, or a raised exception with its
\* class, its message template, the text substituted for the format
\* identifier, the text of the embedded value and the embedded cause.
NoText == <<"-">>

Return(v) == [kind |-> "return", val |-> v, exc |-> "", msg |-> "",
              fmtarg |-> "", rawtext |-> NoText, cause |-> ""]

Raise(e, m) == [kind |-> "raise", val |-> PyNone, exc |-> e, msg |-> m,
                fmtarg |-> "", rawtext |-> NoText, cause |-> ""]

\* isinstance(e, ValueError): UnicodeError derives from ValueError
IsValueError(e) == e \in {"ValueError", "UnicodeDecodeError", "UnicodeEncodeError"}

\* str(v): a str is returned as it is, a unicode is encoded as ASCII,
\* anything else gives its repr text.
str(v) ==
    CASE v.t = "str" -> Return(v)
      [] v.t = "unicode" -> IF IsAscii(v.s) THEN Return(PyStr(v.s))
                            ELSE Raise("UnicodeEncodeError", "'ascii' codec can't encode character")
      [] OTHER -> Return(PyStr(Repr(v)))

\* the text "%s" substitutes for v: no encoding happens for a unicode
FormatS(v) == IF v.t \in {"str", "unicode"} THEN v.s ELSE Repr(v)

\* ------------------------------------------------------------- equality
\* a == b in Python 2.  A str and a unicode are equal when the str decodes
\* as ASCII to the same characters; bool and int compare as numbers; a
\* list never equals a tuple; dicts compare by key, whatever the order.
RECURSIVE PyEq(_, _), SeqEq(_, _), DictHas(_, _, _)
PyEq(a, b) ==
    CASE a.t \in {"bool", "int"} /\ b.t \in {"bool", "int"} -> a.n = b.n
      [] a.t \in {"str", "unicode"} /\ b.t \in {"str", "unicode"} ->
            /\ a.s = b.s
            /\ (a.t # b.t => IsAscii(a.s))
      [] a.t \in {"list", "tuple"} /\ b.t = a.t -> a.n = b.n /\ SeqEq(a.k, b.k)
      [] a.t = "dict" /\ b.t = "dict" ->
            /\ Len(a.k) = Len(b.k)
            /\ \A i \in 1..(Len(a.k) \div 2) : DictHas(b.k, a.k[2 * i - 1], a.k[2 * i])
      [] OTHER -> a.t = b.t /\ a.t \in {"NoneType", "object"}

SeqEq(x, y) ==
    /\ Len(x) = Len(y)
    /\ \A i \in 1..Len(x) : PyEq(x[i], y[i])

DictHas(k, key, val) ==
    \E j \in 1..(Len(k) \div 2) : PyEq(k[2 * j - 1], key) /\ PyEq(k[2 * j], val)

\* ------------------------------------------- json.dumps(raw, indent=4)
\* The encoder's result: exc is "" and text the document, or exc is the
\* class of the exception json.dumps raises and msg its message.
EncOk(text) == [exc |-> "", msg |-> "", text |-> text]
EncErr(e, m) == [exc |-> e, msg |-> m, text |-> <<>>]

\* encode_basestring_ascii on a unicode: ", \ and the control characters
\* are escaped, a non-ASCII character becomes a backslash-u escape of four
\* hex digits
EscapeChar(ch) ==
    CASE ch = Quote -> <<Backslash, Quote>>
      [] ch = Backslash -> <<Backslash, Backslash>>
      [] ch = Newline -> <<Backslash, "n">>
      [] ch = "\r" -> <<Backslash, "r">>
      [] ch = "\t" -> <<Backslash, "t">>
      [] ch = "\f" -> <<Backslash, "f">>
      [] ch = HiChar -> <<Backslash, "u", "0", "0", "f", "f">>
      [] OTHER -> <<ch>>

\* the characters lo..hi of s, each as the encoder writes it
RECURSIVE EscapeRange(_, _, _)
EscapeRange(s, lo, hi) ==
    IF lo > hi THEN <<>>
    ELSE IF lo = hi THEN EscapeChar(s[lo])
    ELSE Only({EscapeRange(s, lo, mid) \o EscapeRange(s, mid + 1, hi) : mid \in {(lo + hi) \div 2}})

EscapeChars(s) == EscapeRange(s, 1, Len(s))

\* a str is first decoded as UTF-8, which the byte 0xFF is not
EncodeString(v) ==
    IF v.t = "str" /\ ~IsAscii(v.s)
    THEN EncErr("UnicodeDecodeError", "'utf8' codec can't decode byte 0xff")
    ELSE EncOk(<<Quote>> \o EscapeChars(v.s) \o <<Quote>>)

Spaces(n) == [i \in 1..n |-> " "]

\* '\n' + ' ' * (indent * level)
NewlineIndent(level) == <<Newline>> \o Spaces(4 * level)

\* the key of a dict item as the encoder writes it
EncodeKey(key) ==
    CASE key.t \in {"str", "unicode"} -> EncodeString(key)
      [] key.t = "bool" -> EncodeString(PyUnicode(IF key.n = 1 THEN <<"t", "r", "u", "e">>
                                                  ELSE <<"f", "a", "l", "s", "e">>))
      [] key.t = "NoneType" -> EncodeString(PyUnicode(<<"n", "u", "l", "l">>))
      [] key.t = "int" -> EncodeString(PyUnicode(IntText(key.n)))
      [] OTHER -> EncErr("TypeError", "key is not a string")

RECURSIVE Encode(_, _), EncodeItems(_, _), EncodePairs(_, _)
Encode(v, level) ==
    CASE v.t = "NoneType" -> EncOk(<<"n", "u", "l", "l">>)
      [] v.t = "bool" -> EncOk(IF v.n = 1 THEN <<"t", "r", "u", "e">>
                               ELSE <<"f", "a", "l", "s", "e">>)
      [] v.t = "int" -> EncOk(IntText(v.n))
      [] v.t \in {"str", "unicode"} -> EncodeString(v)
      [] v.t \in {"list", "tuple"} ->
            IF v.n = 1 THEN EncErr("ValueError", "Circular reference detected")
            ELSE IF v.k = <<>> THEN EncOk(<<"[", "]">>)
            ELSE Only({IF items.exc # "" THEN items
                       ELSE EncOk(<<"[">> \o NewlineIndent(level + 1) \o items.text
                                  \o NewlineIndent(level) \o <<"]">>) :
                       items \in {EncodeItems(v.k, level + 1)}})
      [] v.t = "dict" ->
            IF v.k = <<>> THEN EncOk(<<"{", "}">>)
            ELSE Only({IF items.exc # "" THEN items
                       ELSE EncOk(<<"{">> \o NewlineIndent(level + 1) \o items.text
                                  \o NewlineIndent(level) \o <<"}">>) :
                       items \in {EncodePairs(v.k, level + 1)}})
      [] OTHER -> EncErr("TypeError", "is not JSON serializable")

\* h, then ', ' with the newline and the indent, then r
Joined(h, r, level) == EncOk(h.text \o <<",", " ">> \o NewlineIndent(level) \o r.text)

\* items are separated by ', ' followed by the newline and the indent
EncodeItems(k, level) ==
    Only({IF h.exc # "" \/ Len(k) = 1 THEN h
          ELSE Only({IF r.exc # "" THEN r ELSE Joined(h, r, level) :
                     r \in {EncodeItems(Tail(k), level)}}) :
          h \in {Encode(Head(k), level)}})

EncodePairs(k, level) ==
    Only({IF key.exc # "" THEN key
          ELSE Only({IF val.exc # "" THEN val
                     ELSE IF Len(k) = 2 THEN EncOk(key.text \o <<":", " ">> \o val.text)
                     ELSE Only({IF r.exc # "" THEN r
                                ELSE Joined(EncOk(key.text \o <<":", " ">> \o val.text),
                                            r, level) :
                                r \in {EncodePairs(Tail(Tail(k)), level)}}) :
                     val \in {Encode(k[2], level)}}) :
          key \in {EncodeKey(k[1])}})

json_dumps(v) == Encode(v, 0)

\* ------------------------------------------------------ json.loads(raw)
\* The decoder's result: exc is "" with the value and the position after
\* it, or exc is the class of the exception raised.
DecOk(v, pos) == [exc |-> "", msg |-> "", val |-> v, pos |-> pos]
DecErr(e, m) == [exc |-> e, msg |-> m, val |-> PyNone, pos |-> 0]

IsWs(c) == c \in {" ", Newline, "\t", "\r"}
IsDigit(c) == c \in {"0", "1", "2", "3", "4", "5", "6", "7", "8", "9"}
IsHex(c) == IsDigit(c) \/ c \in {"a", "b", "c", "d", "e", "f", "A", "B", "C", "D", "E", "F"}
DigitVal(c) == CHOOSE d \in 0..9 : DigitChar(d) = c

Least(S) == CHOOSE x \in S : \A y \in S : x <= y

\* the first position from i on that holds no whitespace, or the end
SkipWs(t, i) == Least({j \in i..(Len(t) + 1) : j > Len(t) \/ ~IsWs(t[j])})

\* does the text continue at i with the characters w
StartsWith(t, i, w) ==
    /\ i + Len(w) - 1 <= Len(t)
    /\ \A j \in 1..Len(w) : t[i + j - 1] = w[j]

\* the character a \uXXXX escape stands for; code points outside the
\* alphabet of the values are one opaque element
UnicodeEscape(h) ==
    CASE h = <<"0", "0", "f", "f">> -> HiChar
      [] h = <<"0", "0", "2", "2">> -> Quote
      [] h = <<"0", "0", "5", "c">> -> Backslash
      [] h = <<"0", "0", "6", "1">> -> "a"
      [] OTHER -> "\\u?"

\* BACKSLASH of json.decoder
SimpleEscape(c) ==
    CASE c = Quote -> Quote
      [] c = Backslash -> Backslash
      [] c = "/" -> "/"
      [] c = "b" -> "\\b"
      [] c = "f" -> "\f"
      [] c = "n" -> Newline
      [] c = "r" -> "\r"
      [] OTHER -> "\t"

\* the first position from i on that ends a chunk of plain characters: a
\* quote, a backslash, a control character, a byte that is not UTF-8, or
\* the end of the text
ChunkEnd(t, i, isU) ==
    Least({j \in i..(Len(t) + 1) :
              \/ j > Len(t)
              \/ t[j] \in {Quote, Backslash, Newline, "\t", "\r"}
              \/ (t[j] = HiChar /\ ~isU)})

\* scanstring from the character after the opening quote; isU says the
\* document is a unicode, otherwise it is a str decoded as UTF-8
\* the escape that starts with the backslash at j: how many characters it
\* takes and the character it stands for, or why it is not an escape
Escape(t, j) ==
    IF j + 1 > Len(t) THEN [len |-> 0, ch |-> "", msg |-> "Unterminated string"]
    ELSE IF t[j + 1] = "u"
    THEN IF j + 5 <= Len(t) /\ \A q \in 2..5 : IsHex(t[j + q])
         THEN [len |-> 6, ch |-> UnicodeEscape(SubSeq(t, j + 2, j + 5)), msg |-> ""]
         ELSE [len |-> 0, ch |-> "", msg |-> "Invalid \\uXXXX escape"]
    ELSE IF t[j + 1] \in {Quote, Backslash, "/", "b", "f", "n", "r", "t"}
    THEN [len |-> 2, ch |-> SimpleEscape(t[j + 1]), msg |-> ""]
    ELSE [len |-> 0, ch |-> "", msg |-> "Invalid \\escape"]

\* scanstring from the character after the opening quote; isU says the
\* document is a unicode, otherwise it is a str decoded as UTF-8
RECURSIVE ScanString(_, _, _, _)
ScanString(t, i, isU, acc) ==
    Only({IF j > Len(t) THEN DecErr("ValueError", "Unterminated string")
          ELSE CASE t[j] = Quote -> DecOk(PyUnicode(acc \o SubSeq(t, i, j - 1)), j + 1)
                 [] t[j] = Backslash ->
                      IF e.len = 0 THEN DecErr("ValueError", e.msg)
                      ELSE ScanString(t, j + e.len, isU,
                                      Append(acc \o SubSeq(t, i, j - 1), e.ch))
                 [] t[j] = HiChar ->
                      DecErr("UnicodeDecodeError", "'utf8' codec can't decode byte 0xff")
                 [] OTHER -> DecErr("ValueError", "Invalid control character") :
          <<j, e>> \in {<<k, Escape(t, k)>> : k \in {ChunkEnd(t, i, isU)}}})

\* the digits of an integer from position i: their value and the end
RECURSIVE ScanDigits(_, _, _)
ScanDigits(t, i, n) ==
    IF i <= Len(t) /\ IsDigit(t[i]) THEN ScanDigits(t, i + 1, 10 * n + DigitVal(t[i]))
    ELSE [n |-> n, pos |-> i]

\* NUMBER_RE without fraction and exponent: -?(0|[1-9][0-9]*)
ScanNumber(t, i) ==
    LET neg == t[i] = "-"
        j == IF neg THEN i + 1 ELSE i
    IN IF j > Len(t) \/ ~IsDigit(t[j])
       THEN DecErr("ValueError", "No JSON object could be decoded")
       ELSE IF t[j] = "0" THEN DecOk(PyInt(0), j + 1)
       ELSE LET d == ScanDigits(t, j, 0)
            IN DecOk(PyInt(IF neg THEN 0 - d.n ELSE d.n), d.pos)

\* dict[key] = val on the alternating keys and values
RECURSIVE DictSet(_, _, _)
DictSet(k, key, val) ==
    IF k = <<>> THEN <<key, val>>
    ELSE IF PyEq(k[1], key) THEN <<k[1], val>> \o Tail(Tail(k))
    ELSE <<k[1], k[2]>> \o DictSet(Tail(Tail(k)), key, val)

RECURSIVE ScanOnce(_, _, _), ParseArray(_, _, _, _), ParseObject(_, _, _, _)
RECURSIVE ArrayNext(_, _, _, _), ObjectNext(_, _, _, _), ObjectValue(_, _, _, _, _)
ScanOnce(t, i, isU) ==
    IF i > Len(t) THEN DecErr("ValueError", "No JSON object could be decoded")
    ELSE CASE t[i] = Quote -> ScanString(t, i + 1, isU, <<>>)
           [] t[i] = "{" ->
                LET j == SkipWs(t, i + 1)
                IN IF j <= Len(t) /\ t[j] = "}" THEN DecOk(PyDict(<<>>), j + 1)
                   ELSE ParseObject(t, j, isU, <<>>)
           [] t[i] = "[" ->
                LET j == SkipWs(t, i + 1)
                IN IF j <= Len(t) /\ t[j] = "]" THEN DecOk(PyList(<<>>), j + 1)
                   ELSE ParseArray(t, j, isU, <<>>)
           [] StartsWith(t, i, <<"n", "u", "l", "l">>) -> DecOk(PyNone, i + 4)
           [] StartsWith(t, i, <<"t", "r", "u", "e">>) -> DecOk(PyBool(TRUE), i + 4)
           [] StartsWith(t, i, <<"f", "a", "l", "s", "e">>) -> DecOk(PyBool(FALSE), i + 5)
           [] t[i] = "-" \/ IsDigit(t[i]) -> ScanNumber(t, i)
           [] OTHER -> DecErr("ValueError", "No JSON object could be decoded")

\* JSONArray after an item: the list is closed at j or goes on
ArrayNext(t, j, isU, got) ==
    IF j > Len(t) THEN DecErr("ValueError", "Expecting , delimiter")
    ELSE IF t[j] = "]" THEN DecOk(PyList(got), j + 1)
    ELSE IF t[j] = "," THEN ParseArray(t, SkipWs(t, j + 1), isU, got)
    ELSE DecErr("ValueError", "Expecting , delimiter")

\* JSONArray from the first item at i
ParseArray(t, i, isU, acc) ==
    Only({IF item.exc # "" THEN item
          ELSE ArrayNext(t, SkipWs(t, item.pos), isU, Append(acc, item.val)) :
          item \in {ScanOnce(t, i, isU)}})

\* JSONObject after a property: the dict is closed at j or goes on
ObjectNext(t, j, isU, got) ==
    IF j > Len(t) THEN DecErr("ValueError", "Expecting , delimiter")
    ELSE IF t[j] = "}" THEN DecOk(PyDict(got), j + 1)
    ELSE IF t[j] = "," THEN ParseObject(t, SkipWs(t, j + 1), isU, got)
    ELSE DecErr("ValueError", "Expecting , delimiter")

\* JSONObject after the property name key: the colon at c and the value
ObjectValue(t, c, isU, acc, key) ==
    IF c > Len(t) \/ t[c] # ":" THEN DecErr("ValueError", "Expecting : delimiter")
    ELSE Only({IF val.exc # "" THEN val
               ELSE ObjectNext(t, SkipWs(t, val.pos), isU, DictSet(acc, key, val.val)) :
               val \in {ScanOnce(t, SkipWs(t, c + 1), isU)}})

\* JSONObject from the first property name at i
ParseObject(t, i, isU, acc) ==
    IF i > Len(t) \/ t[i] # Quote THEN DecErr("ValueError", "Expecting property name")
    ELSE Only({IF key.exc # "" THEN key
               ELSE ObjectValue(t, SkipWs(t, key.pos), isU, acc, key.val) :
               key \in {ScanString(t, i + 1, isU, <<>>)}})

\* json.loads: the whole text must be one document
json_loads(v) ==
    IF v.t \notin {"str", "unicode"} THEN DecErr("TypeError", "expected string or buffer")
    ELSE Only({IF r.exc # "" THEN r
               ELSE IF SkipWs(v.s, r.pos) <= Len(v.s) THEN DecErr("ValueError", "Extra data")
               ELSE r :
               r \in {ScanOnce(v.s, SkipWs(v.s, 1), v.t = "unicode")}})

\* --------------------------------------------------------------- handlers
\* What a handler operation does: its outcome, the collaborator
\* operations it performed and the records it logged.
HRes(out) == [out |-> out, ext |-> <<>>, log |-> <<>>]

DotTxt_pre(v) == HRes(str(v))

DotTxt_post(v) == HRes(str(v))

\* processed = str(raw) in place of json.dumps(raw, indent=4)
DotJson_pre_str(v) == HRes(str(v))

DotJson_pre(v) ==
    LET r == json_dumps(v)
    IN IF r.exc = "" THEN HRes(Return(PyStr(r.text)))
       ELSE IF IsValueError(r.exc)
       THEN [out |-> Return(PyDict(<<>>)), ext |-> <<>>,
             log |-> <<[level |-> "DEBUG", msg |-> r.msg]>>]
       ELSE IF r.exc = "TypeError"
       THEN HRes([Raise("TypeError", "Data corrupt | %s\n%s")
                     EXCEPT !.rawtext = FormatS(v), !.cause = r.msg])
       ELSE HRes(Raise(r.exc, r.msg))

\* json.loads guarded the way DotJson.pre guards json.dumps: a ValueError
\* is logged and the empty mapping returned
DotJson_post_absorbing(v) ==
    LET r == json_loads(v)
    IN IF r.exc = "" THEN HRes(Return(r.val))
       ELSE IF IsValueError(r.exc)
       THEN [out |-> Return(PyDict(<<>>)), ext |-> <<>>,
             log |-> <<[level |-> "DEBUG", msg |-> r.msg]>>]
       ELSE HRes(Raise(r.exc, r.msg))

DotJson_post(v) ==
    LET r == json_loads(v)
    IN IF r.exc = "" THEN HRes(Return(r.val)) ELSE HRes(Raise(r.exc, r.msg))

\* The Python 2 ConfigParser.ConfigParser has read() and readfp() but no
\* read_string(): the attribute lookup fails before the text is looked at.
DotIni_pre(v) ==
    HRes(Raise("AttributeError", "ConfigParser instance has no attribute 'read_string'"))

\* the body is `pass`: the call returns None
DotIni_post(v) == HRes(Return(PyNone))

\* the raise is the first statement; the statements after it never run
DotGdoc_pre(v) == HRes(Raise("NotImplementedError", ""))

\* DotGdoc.post without its leading raise: link and data are read from raw
\* and the undefined name gdata stops the call
DotGdoc_post_unguarded(v) ==
    [out |-> Raise("NameError", "global name 'gdata' is not defined"),
     ext |-> <<"raw.get('link')", "raw.get('data')">>, log |-> <<>>]

DotGdoc_post(v) == HRes(Raise("NotImplementedError", ""))

\* ------------------------------------------------- registry, dispatchers
None == "None"

ModuleMapping ==
    (".txt" :> "DotTxt") @@ (".json" :> "DotJson")
    @@ (".ini" :> "DotIni") @@ (".gdoc" :> "DotGdoc")

\* m.get(key, DotTxt): an absent key falls back to the plain-text handler
dict_get_default(m, key) == IF key \in DOMAIN m THEN m[key] ELSE "DotTxt"

\* m.get(key): the value, or None when the key is absent
dict_get(m, key) == IF key \in DOMAIN m THEN m[key] ELSE None

\* the dict after m.setdefault(key): an absent key is inserted with None
dict_after_setdefault(m, key) == IF key \in DOMAIN m THEN m ELSE m @@ (key :> None)

\* the dict after m.get(key): get() never inserts
dict_after_get(m, key) == m

\* `not format`: a class is true, None is false
Not(x) == x = None

\* ValueError('Format "%s" not supported' % format) with the local
\* variable format as it is bound when the raise runs
UnsupportedError(fmt) ==
    [Raise("ValueError", "Format \"%s\" not supported") EXCEPT !.fmtarg = fmt]

\* preprocess calling format.post(raw), as its twin postprocess does
call_pre_as_post(cls, v) ==
    CASE cls = "DotTxt" -> DotTxt_post(v)
      [] cls = "DotJson" -> DotJson_post(v)
      [] cls = "DotIni" -> DotIni_post(v)
      [] OTHER -> DotGdoc_post(v)

\* format.pre(raw) on the class bound to format
call_pre(cls, v) ==
    CASE cls = "DotTxt" -> DotTxt_pre(v)
      [] cls = "DotJson" -> DotJson_pre(v)
      [] cls = "DotIni" -> DotIni_pre(v)
      [] OTHER -> DotGdoc_pre(v)

\* format.post(raw) on the class bound to format
call_post(cls, v) ==
    CASE cls = "DotTxt" -> DotTxt_post(v)
      [] cls = "DotJson" -> DotJson_post(v)
      [] cls = "DotIni" -> DotIni_post(v)
      [] OTHER -> DotGdoc_post(v)

\* preprocess(raw, format) run on its own against the registry m
preprocess(m, v, f) ==
    LET fmt == dict_get(m, f)
    IN IF Not(fmt) THEN UnsupportedError(fmt) ELSE call_pre(fmt, v).out

\* postprocess(raw, format) run on its own against the registry m
postprocess(m, v, f) ==
    LET fmt == dict_get(m, f)
    IN IF Not(fmt) THEN UnsupportedError(fmt) ELSE call_post(fmt, v).out

\* ----------------------------------------------------------------- inputs
Alphabet == {"a", Quote, HiChar}

Strings == UNION {[1..n -> Alphabet] : n \in 0..MaxStrLen}

Scalars ==
    {PyNone, PyBool(TRUE), PyInt(0 - 1), PyInt(12), PyObject}
    \cup {PyStr(s) : s \in Strings} \cup {PyUnicode(s) : s \in Strings}

Keys == {PyStr(<<"a">>), PyInt(12)}

\* the scalars, the self-containing list, and the containers of at most
\* one item nested d deep
RECURSIVE ValuesUpTo(_)
ValuesUpTo(d) ==
    IF d = 0 THEN Scalars \cup {PyCyclic}
    ELSE LET V == ValuesUpTo(d - 1)
         IN V \cup {PyList(<<>>), PyTuple(<<>>), PyDict(<<>>)}
              \cup {PyList(<<v>>) : v \in V} \cup {PyTuple(<<v>>) : v \in V}
              \cup {PyDict(<<key, v>>) : key \in Keys, v \in V}

\* containers of two items, one of them nested
ExtraValues ==
    {PyList(<<PyInt(12), PyStr(<<"a">>)>>),
     PyTuple(<<PyNone, PyBool(TRUE)>>),
     PyDict(<<PyStr(<<"a">>), PyNone, PyUnicode(<<"b">>), PyList(<<PyBool(FALSE), PyDict(<<>>)>>)>>),
     PyDict(<<PyStr(<<"K", "e", "y">>), PyStr(<<"v", "a", "l">>)>>)}

Values == ValuesUpTo(MaxDepth) \cup ExtraValues

\* the documents json.dumps writes for the values it can encode
DumpTexts == {json_dumps(v).text : v \in {w \in Values : json_dumps(w).exc = ""}}

\* a document that ends in a closing quote or bracket, without it
Truncated == {SubSeq(t, 1, Len(t) - 1) : t \in {u \in DumpTexts : u[Len(u)] \in {Quote, "]", "}"}}}

NotValid == <<"{", "n", "o", "t", " ", "v", "a", "l", "i", "d">>

MalformedTexts == Truncated \cup {NotValid}

IniText == <<"[", "A", "]", Newline, "K", "e", "y", "=", "v", "a", "l", Newline>>

Inputs ==
    Values \cup {PyStr(t) : t \in DumpTexts \cup MalformedTexts \cup {IniText}}
           \cup {PyUnicode(NotValid)}

Formats == {".txt", ".json", ".ini", ".gdoc", ".xyz", ".TXT"}

ConcInputs == {PyCyclic, PyStr(NotValid)}

ConcFormats == {".txt", ".json", ".ini", ".gdoc", ".xyz"}

\* ------------------------------------------------------------------ state
\* mapping is the module's registry, log what the module's logger was
\* handed.  Every other variable is a function of the execution context:
\* pc where its call stands, op/raw/requested the call the caller made,
\* format the local variable `format` of the dispatcher, result what the
\* caller got, invoked the handler operations run for the call, ext the
\* collaborator operations a handler performed, first the call whose
\* result the caller fed back.
NoResult == [kind |-> "none", val |-> PyNone, exc |-> "", msg |-> "",
             fmtarg |-> "", rawtext |-> NoText, cause |-> ""]

NoCall == [op |-> "", raw |-> PyNone, requested |-> "", result |-> NoResult]

InitOver(C) ==
    /\ mapping = ModuleMapping
    /\ log = <<>>
    /\ pc = [c \in C |-> "idle"]
    /\ op = [c \in C |-> ""]
    /\ raw = [c \in C |-> PyNone]
    /\ requested = [c \in C |-> ""]
    /\ format = [c \in C |-> ""]
    /\ result = [c \in C |-> NoResult]
    /\ invoked = [c \in C |-> <<>>]
    /\ ext = [c \in C |-> <<>>]
    /\ first = [c \in C |-> NoCall]

\* one caller making one call after the other
SeqCtx == {1}

\* callers running at the same time
ConcCtx == 1..NumCtx

Init == InitOver(SeqCtx)

InitConc == InitOver(ConcCtx)

\* the caller calls preprocess (o = "pre") or postprocess (o = "post")
\* with the value v and the format identifier f
Enter(c, o, v, f) ==
    /\ pc' = [pc EXCEPT ![c] = "called"]
    /\ op' = [op EXCEPT ![c] = o]
    /\ raw' = [raw EXCEPT ![c] = v]
    /\ requested' = [requested EXCEPT ![c] = f]
    /\ format' = [format EXCEPT ![c] = f]
    /\ UNCHANGED <<mapping, log, result, invoked, ext, first>>

Call(c) ==
    /\ pc[c] = "idle"
    /\ \E o \in {"pre", "post"}, v \in Inputs, f \in Formats : Enter(c, o, v, f)

CallConc(c) ==
    /\ pc[c] = "idle"
    /\ \E o \in {"pre", "post"}, v \in ConcInputs, f \in ConcFormats : Enter(c, o, v, f)

\* format = mapping.get(format)
Lookup(c) ==
    /\ pc[c] = "called"
    /\ format' = [format EXCEPT ![c] = dict_get(mapping, format[c])]
    /\ mapping' = dict_after_get(mapping, format[c])
    /\ pc' = [pc EXCEPT ![c] = "looked"]
    /\ UNCHANGED <<log, op, raw, requested, result, invoked, ext, first>>

\* if not format: raise ValueError(...)
Unsupported(c) ==
    /\ pc[c] = "looked"
    /\ Not(format[c])
    /\ result' = [result EXCEPT ![c] = UnsupportedError(format[c])]
    /\ pc' = [pc EXCEPT ![c] = "done"]
    /\ UNCHANGED <<mapping, log, op, raw, requested, format, invoked, ext, first>>

\* return format.pre(raw)  /  return format.post(raw)
Invoke(c) ==
    /\ pc[c] = "looked"
    /\ ~Not(format[c])
    /\ LET h == IF op[c] = "pre" THEN call_pre(format[c], raw[c])
                ELSE call_post(format[c], raw[c])
       IN /\ result' = [result EXCEPT ![c] = h.out]
          /\ ext' = [ext EXCEPT ![c] = h.ext]
          /\ log' = log \o h.log
    /\ invoked' = [invoked EXCEPT ![c] =
                      Append(@, [handler |-> format[c], op |-> op[c], arg |-> raw[c]])]
    /\ pc' = [pc EXCEPT ![c] = "done"]
    /\ UNCHANGED <<mapping, op, raw, requested, format, first>>

\* the caller passes what preprocess returned to postprocess, with the
\* format identifier it used for preprocess
Chain(c) ==
    /\ pc[c] = "done"
    /\ first[c] = NoCall
    /\ op[c] = "pre"
    /\ result[c].kind = "return"
    /\ first' = [first EXCEPT ![c] = [op |-> op[c], raw |-> raw[c],
                                      requested |-> requested[c], result |-> result[c]]]
    /\ pc' = [pc EXCEPT ![c] = "called"]
    /\ op' = [op EXCEPT ![c] = "post"]
    /\ raw' = [raw EXCEPT ![c] = result[c].val]
    /\ format' = [format EXCEPT ![c] = requested[c]]
    /\ result' = [result EXCEPT ![c] = NoResult]
    /\ invoked' = [invoked EXCEPT ![c] = <<>>]
    /\ ext' = [ext EXCEPT ![c] = <<>>]
    /\ UNCHANGED <<mapping, log, requested>>

Next ==
    \/ \E c \in SeqCtx : Call(c)
    \/ \E c \in SeqCtx : Lookup(c)
    \/ \E c \in SeqCtx : Unsupported(c)
    \/ \E c \in SeqCtx : Invoke(c)
    \/ \E c \in SeqCtx : Chain(c)

Spec == Init /\ [][Next]_vars

NextConc ==
    \/ \E c \in ConcCtx : CallConc(c)
    \/ \E c \in ConcCtx : Lookup(c)
    \/ \E c \in ConcCtx : Unsupported(c)
    \/ \E c \in ConcCtx : Invoke(c)

SpecConc == InitConc /\ [][NextConc]_vars

\* ------------------------------------------------------ the error outcomes
UnsupportedFormat(o) ==
    o.kind = "raise" /\ o.exc = "ValueError" /\ o.msg = "Format \"%s\" not supported"

NotImplemented(o) == o.kind = "raise" /\ o.exc = "NotImplementedError"

DataCorrupted(o) ==
    o.kind = "raise" /\ o.exc = "TypeError" /\ o.msg = "Data corrupt | %s\n%s"

MalformedInput(o) == o.kind = "raise" /\ IsValueError(o.exc)

Done(c) == pc[c] = "done"

IsRegistered(f) == f \in {".txt", ".json", ".ini", ".gdoc"}

\* v holds a native object or a reference cycle somewhere
RECURSIVE NonSerializable(_)
NonSerializable(v) ==
    \/ v.t = "object"
    \/ v.t = "list" /\ v.n = 1
    \/ \E i \in 1..Len(v.k) : NonSerializable(v.k[i])

\* v holds a str with a byte that is not UTF-8 somewhere
RECURSIVE HasBadBytes(_)
HasBadBytes(v) ==
    \/ v.t = "str" /\ ~IsAscii(v.s)
    \/ \E i \in 1..Len(v.k) : HasBadBytes(v.k[i])

\* ----------------------------------------------------------------- claims

\* C1: a call with a format identifier that is not a key of the registry
\* ends in the UnsupportedFormat error, for preprocess and postprocess and
\* every value, and no handler operation runs during the call.
C1_UnregisteredFailsWithoutHandler ==
    \A c \in DOMAIN pc :
        (pc[c] # "idle" /\ ~IsRegistered(requested[c])) =>
            /\ invoked[c] = <<>>
            /\ ext[c] = <<>>
            /\ (Done(c) => UnsupportedFormat(result[c]))

\* C1 witness: postprocess with '.xyz' has ended in UnsupportedFormat with
\* no handler operation run.
C1_Witness ==
    \E c \in DOMAIN pc :
        /\ Done(c) /\ requested[c] = ".xyz" /\ op[c] = "post"
        /\ UnsupportedFormat(result[c]) /\ invoked[c] = <<>>

\* C2: the UnsupportedFormat error carries the format identifier the
\* caller passed.
C2_ErrorCarriesRequestedFormat ==
    \A c \in DOMAIN pc :
        (Done(c) /\ ~IsRegistered(requested[c])) => result[c].fmtarg = requested[c]

\* C3 as stated: for '.txt' and '.json' and every value preprocess accepts,
\* postprocess of what preprocess returned completes and equals the value.
C3_RoundTripEveryValue ==
    \A c \in DOMAIN pc :
        (Done(c) /\ first[c] # NoCall /\ requested[c] \in {".txt", ".json"}) =>
            /\ result[c].kind = "return"
            /\ PyEq(result[c].val, first[c].raw)

\* the values plain text gives back: a str, or a unicode of ASCII characters
TxtNative(v) == v.t = "str" \/ (v.t = "unicode" /\ IsAscii(v.s))

\* the values JSON gives back: None, booleans, integers, ASCII str and
\* unicode strings, and lists and string-keyed dicts of such values
RECURSIVE JsonNative(_)
JsonNative(v) ==
    CASE v.t \in {"NoneType", "bool", "int", "unicode"} -> TRUE
      [] v.t = "str" -> IsAscii(v.s)
      [] v.t = "list" -> v.n = 0 /\ \A i \in 1..Len(v.k) : JsonNative(v.k[i])
      [] v.t = "dict" ->
            \A i \in 1..(Len(v.k) \div 2) :
                /\ v.k[2 * i - 1].t \in {"str", "unicode"}
                /\ JsonNative(v.k[2 * i - 1])
                /\ JsonNative(v.k[2 * i])
      [] OTHER -> FALSE

RoundTrips(f, v) == (f = ".txt" /\ TxtNative(v)) \/ (f = ".json" /\ JsonNative(v))

\* C3 amended: for '.txt' and a str or ASCII unicode, and for '.json' and
\* a value built of None, booleans, integers, ASCII or unicode strings,
\* lists and string-keyed dicts, preprocess returns, and postprocess of
\* what it returned returns a value equal to the original.
C3_RoundTripNativeValues ==
    \A c \in DOMAIN pc :
        /\ (Done(c) /\ first[c] = NoCall /\ op[c] = "pre" /\ RoundTrips(requested[c], raw[c]))
              => result[c].kind = "return"
        /\ (Done(c) /\ first[c] # NoCall /\ RoundTrips(requested[c], first[c].raw))
              => (result[c].kind = "return" /\ PyEq(result[c].val, first[c].raw))

\* C3 witness: a two-key dict with a nested list went through '.json'
\* preprocess and postprocess and came back equal, its str keys as unicode.
C3_Witness ==
    \E c \in DOMAIN pc :
        /\ Done(c) /\ first[c] # NoCall /\ requested[c] = ".json"
        /\ first[c].raw.t = "dict" /\ Len(first[c].raw.k) = 4
        /\ result[c].kind = "return"
        /\ result[c].val # first[c].raw
        /\ PyEq(result[c].val, first[c].raw)

\* C4: postprocess with '.ini' ends in the NotImplemented error for every
\* input and never returns a value.
C4_IniPostNotImplemented ==
    \A c \in DOMAIN pc :
        (Done(c) /\ op[c] = "post" /\ requested[c] = ".ini") => NotImplemented(result[c])

\* C5: preprocess with '.json' on a value that holds a native object or a
\* reference cycle ends in the DataCorrupted error, which carries the value
\* and the cause.
C5_NonSerializableIsDataCorrupted ==
    \A c \in DOMAIN pc :
        (Done(c) /\ op[c] = "pre" /\ requested[c] = ".json" /\ NonSerializable(raw[c])) =>
            /\ DataCorrupted(result[c])
            /\ result[c].rawtext = FormatS(raw[c])
            /\ result[c].cause # ""

\* the handler operation of the call has no implementation
Unimplemented(f, o) == f = ".gdoc" \/ (f = ".ini" /\ o = "post")

\* C6: a failure is absorbed only by '.json' preprocess on the encoding
\* error, which logs it and returns the empty mapping; an unimplemented
\* operation, a structural serialization error and a parse error all reach
\* the caller as an error.
C6_OnlyEncodingErrorAbsorbed ==
    \A c \in DOMAIN pc :
        Done(c) =>
            /\ (\/ Unimplemented(requested[c], op[c])
                \/ (requested[c] = ".json" /\ op[c] = "pre" /\ NonSerializable(raw[c]))
                \/ (requested[c] = ".json" /\ op[c] = "post"
                    /\ raw[c].t \in {"str", "unicode"} /\ raw[c].s \in MalformedTexts))
                  => result[c].kind = "raise"
            /\ (requested[c] = ".json" /\ op[c] = "pre"
                /\ HasBadBytes(raw[c]) /\ ~NonSerializable(raw[c]))
                  => (result[c] = Return(PyDict(<<>>)) /\ log # <<>>)

\* the operation the registry's table names for a format and a direction
DirectCall(f, o, v) ==
    CASE f = ".txt" /\ o = "pre" -> DotTxt_pre(v)
      [] f = ".txt" /\ o = "post" -> DotTxt_post(v)
      [] f = ".json" /\ o = "pre" -> DotJson_pre(v)
      [] f = ".json" /\ o = "post" -> DotJson_post(v)
      [] f = ".ini" /\ o = "pre" -> DotIni_pre(v)
      [] f = ".ini" /\ o = "post" -> DotIni_post(v)
      [] f = ".gdoc" /\ o = "pre" -> DotGdoc_pre(v)
      [] OTHER -> DotGdoc_post(v)

HandlerOf(f) ==
    CASE f = ".txt" -> "DotTxt" [] f = ".json" -> "DotJson"
      [] f = ".ini" -> "DotIni" [] OTHER -> "DotGdoc"

\* C7: for a registered format the dispatcher runs that format's handler
\* operation of the called direction once, with the caller's value, and the
\* caller gets exactly the handler's outcome, returned or raised.
C7_DispatcherPassThrough ==
    \A c \in DOMAIN pc :
        (Done(c) /\ IsRegistered(requested[c])) =>
            /\ invoked[c] = <<[handler |-> HandlerOf(requested[c]), op |-> op[c], arg |-> raw[c]]>>
            /\ result[c] = DirectCall(requested[c], op[c], raw[c]).out

\* C7 witness: the AttributeError of DotIni.pre has reached the caller of
\* preprocess after one handler operation.
C7_Witness ==
    \E c \in DOMAIN pc :
        /\ Done(c) /\ requested[c] = ".ini" /\ op[c] = "pre"
        /\ Len(invoked[c]) = 1
        /\ result[c].kind = "raise" /\ result[c].exc = "AttributeError"

\* C8: '.gdoc' preprocess and postprocess end in the NotImplemented error
\* for every input, before any collaborator operation is performed.
C8_GdocNotImplemented ==
    \A c \in DOMAIN pc :
        (Done(c) /\ requested[c] = ".gdoc") =>
            (NotImplemented(result[c]) /\ ext[c] = <<>>)

\* C8 witness: postprocess with '.gdoc' on a dict has ended in
\* NotImplemented.
C8_Witness ==
    \E c \in DOMAIN pc :
        /\ Done(c) /\ requested[c] = ".gdoc" /\ op[c] = "post" /\ raw[c].t = "dict"
        /\ NotImplemented(result[c])

\* C9: postprocess with '.json' on a text that is no JSON document (a
\* document cut before its closing quote or bracket, or '{not valid') ends
\* in the MalformedInput error and returns no value.
C9_MalformedJsonRaises ==
    \A c \in DOMAIN pc :
        (Done(c) /\ op[c] = "post" /\ requested[c] = ".json"
         /\ raw[c].t \in {"str", "unicode"} /\ raw[c].s \in MalformedTexts) =>
            MalformedInput(result[c])

\* C9 witness: postprocess with '.json' on '{not valid' has ended in
\* MalformedInput.
C9_Witness ==
    \E c \in DOMAIN pc :
        /\ Done(c) /\ op[c] = "post" /\ requested[c] = ".json"
        /\ raw[c] = PyStr(NotValid)
        /\ MalformedInput(result[c])

====
